---------------------------- MODULE Spec2Model ----------------------------
(***************************************************************************)
(* Model of the user-management HTTP service of src/main.go: five echo     *)
(* handlers over one `users` table reached through GORM on PostgreSQL.     *)
(* A database statement is the unit of atomicity; a handler that issues    *)
(* two statements (PATCH, DELETE) is two steps and may interleave with     *)
(* the other handlers between them.                                        *)
(***************************************************************************)
EXTENDS Integers, FiniteSets, Sequences, TLC

VARIABLES
    users,      \* the rows of the users table (a set of Users records)
    nextId,     \* next value of the user_id sequence
    hs,         \* per handler goroutine: where it stands in its one request
    last,       \* the most recently completed request and its response
    created,    \* history: ids handed out by a successful POST
    deleted     \* history: ids whose row a DELETE statement removed

vars == <<users, nextId, hs, last, created, deleted>>

----------------------------------------------------------------------------
(* Bounds of the model *)

MaxId == 2          \* values the user_id sequence may hand out
MaxHandlers == 2    \* requests served, each by a handler goroutine of its own

Handlers == 1..MaxHandlers
Ids == 1..MaxId

----------------------------------------------------------------------------
(* HTTP statuses used by the handlers *)

StatusOK == 200
StatusCreated == 201
StatusNoContent == 204
StatusUnprocessableEntity == 422
StatusInternalServerError == 500
\* no response at all: the handler panicked and net/http dropped the connection
StatusNone == 0

----------------------------------------------------------------------------
(* Data *)

ZeroTime == <<1, 1, 1>>     \* time.Time{} : 0001-01-01 00:00:00 UTC

\* Users{} : the Go zero value of the entity
ZeroUser ==
    [UserID |-> 0, Username |-> "", Password |-> "", FirstName |-> "",
     LastName |-> "", Phone |-> "", Email |-> "", Birthday |-> ZeroTime,
     IsActive |-> FALSE]

\* UserRequest{} / UserEditRequest{} : both requests have the same seven string
\* fields; WellFormed tells whether c.Bind can decode the body at all
ZeroRequest ==
    [WellFormed |-> TRUE, Username |-> "", Password |-> "", FirstName |-> "",
     LastName |-> "", Phone |-> "", Email |-> "", Birthday |-> ""]

MalformedBody == [ZeroRequest EXCEPT !.WellFormed = FALSE]

\* a password bcrypt refuses: GenerateFromPassword returns ErrPasswordTooLong
\* for more than 72 bytes
TooLong == "a-password-of-more-than-72-bytes"

Salts == {"saltA", "saltB"}

\* time.Parse("2006-01-02", s), also the validator's datetime=2006-01-02 rule
TimeParse(s) ==
    CASE s = "2000-01-01" -> [err |-> FALSE, t |-> <<2000, 1, 1>>]
      [] s = "1990-05-17" -> [err |-> FALSE, t |-> <<1990, 5, 17>>]
      [] OTHER            -> [err |-> TRUE,  t |-> ZeroTime]

\* bcrypt.GenerateFromPassword(password, DefaultCost) with the salt it drew
GenerateFromPassword(p, salt) ==
    IF p = TooLong
    THEN [err |-> TRUE,  crypted |-> ""]
    ELSE [err |-> FALSE, crypted |-> "$2a$10$" \o salt \o "$" \o p]

\* the validator's `email` rule
IsEmail(s) == s \in {"a@x.io", "b@x.io"}

\* validate tags of UserRequest: required / email / omitempty,datetime
ValidateUserRequest(r) ==
    /\ r.Username # ""
    /\ r.Password # ""
    /\ r.Phone # ""
    /\ r.Email # "" /\ IsEmail(r.Email)
    /\ (r.Birthday # "" => ~TimeParse(r.Birthday).err)

----------------------------------------------------------------------------
(* The persistence collaborator: GORM statements on the PostgreSQL table *)

\* (mutant) the unique constraint on Phone is missing
UniqueOKWithoutPhone(table, row) ==
    \A o \in table :
        o.UserID # row.UserID =>
            /\ o.Username # row.Username
            /\ o.Email # row.Email

\* gorm:"unique" on Username, Phone, Email and the primary key on UserID:
\* may `row` stand in `table` beside the rows with another primary key?
UniqueOK(table, row) ==
    \A o \in table :
        o.UserID # row.UserID =>
            /\ o.Username # row.Username
            /\ o.Phone # row.Phone
            /\ o.Email # row.Email

\* db.First(&res, id): SELECT ... WHERE user_id = id LIMIT 1
DbFirst(table, id) ==
    IF \E r \in table : r.UserID = id
    THEN [found |-> TRUE,  row |-> CHOOSE r \in table : r.UserID = id]
    ELSE [found |-> FALSE, row |-> ZeroUser]

\* db.Create(&row): INSERT with user_id drawn from the sequence; the value is
\* consumed whether or not the INSERT passes the unique constraints
DbCreate(table, row, id) ==
    LET new == [row EXCEPT !.UserID = id, !.IsActive = FALSE] IN
    IF UniqueOK(table, new)
    THEN [err |-> FALSE, table |-> table \cup {new}, row |-> new]
    ELSE [err |-> TRUE,  table |-> table, row |-> row]

\* (mutant) every field of row is written, the zero-valued ones too, as
\* db.Select("*").Updates(&row) would
MergeEveryField(stored, row) == [row EXCEPT !.UserID = stored.UserID]

\* db.Updates(&row) with a struct: UPDATE ... SET <the non-zero fields of row>
\* WHERE user_id = row.UserID. Zero-valued fields are not written; a missing
\* row makes the statement affect nothing, without an error.
MergeNonZero(stored, row) ==
    [UserID    |-> stored.UserID,
     Username  |-> IF row.Username # "" THEN row.Username ELSE stored.Username,
     Password  |-> IF row.Password # "" THEN row.Password ELSE stored.Password,
     FirstName |-> IF row.FirstName # "" THEN row.FirstName ELSE stored.FirstName,
     LastName  |-> IF row.LastName # "" THEN row.LastName ELSE stored.LastName,
     Phone     |-> IF row.Phone # "" THEN row.Phone ELSE stored.Phone,
     Email     |-> IF row.Email # "" THEN row.Email ELSE stored.Email,
     Birthday  |-> IF row.Birthday # ZeroTime THEN row.Birthday ELSE stored.Birthday,
     IsActive  |-> IF row.IsActive THEN TRUE ELSE stored.IsActive]

\* (mutant) the record is saved as db.Save(&row) would: inserted when no row
\* has its primary key
DbSave(table, row) ==
    LET hit == DbFirst(table, row.UserID) IN
    IF UniqueOK(table, row)
    THEN [err |-> FALSE, table |-> (table \ {hit.row}) \cup {row}]
    ELSE [err |-> TRUE,  table |-> table]

DbUpdates(table, row) ==
    LET hit == DbFirst(table, row.UserID) IN
    IF ~hit.found
    THEN [err |-> FALSE, table |-> table]
    ELSE LET new == MergeNonZero(hit.row, row) IN
         IF UniqueOK(table, new)
         THEN [err |-> FALSE, table |-> (table \ {hit.row}) \cup {new}]
         ELSE [err |-> TRUE,  table |-> table]

\* db.Delete(&row): DELETE ... WHERE user_id = row.UserID
DbDelete(table, row) == {r \in table : r.UserID # row.UserID}

----------------------------------------------------------------------------
(* Requests the clients send *)

NewUser(u, p, e) ==
    [ZeroRequest EXCEPT !.Username = u, !.Password = "hunter2", !.Phone = p,
                        !.Email = e, !.Birthday = "2000-01-01"]

CreateBodies ==
    {NewUser("alice", "111", "a@x.io"), NewUser("bob", "222", "b@x.io"),
     NewUser("alice", "222", "b@x.io"), NewUser("bob", "111", "b@x.io"),
     NewUser("bob", "222", "a@x.io")}
    \cup {[NewUser("alice", "111", "a@x.io") EXCEPT !.Birthday = ""],
          [NewUser("alice", "111", "a@x.io") EXCEPT !.Birthday = "nope"],
          [NewUser("alice", "111", "a@x.io") EXCEPT !.Password = TooLong],
          [NewUser("bob", "222", "b@x.io") EXCEPT !.Email = "bogus"],
          [NewUser("bob", "222", "b@x.io") EXCEPT !.Username = ""],
          [NewUser("bob", "222", "b@x.io") EXCEPT !.FirstName = "Ann"],
          MalformedBody}

EditBodies ==
    {[ZeroRequest EXCEPT !.Email = "b@x.io"],
     [ZeroRequest EXCEPT !.Email = "bogus"],
     [ZeroRequest EXCEPT !.Phone = "222"],
     [ZeroRequest EXCEPT !.Username = "bob"],
     [ZeroRequest EXCEPT !.Password = "s3cret"],
     [ZeroRequest EXCEPT !.Password = TooLong],
     [ZeroRequest EXCEPT !.FirstName = "Ann"],
     [ZeroRequest EXCEPT !.LastName = "Lee"],
     [ZeroRequest EXCEPT !.Birthday = "1990-05-17"],
     [ZeroRequest EXCEPT !.Birthday = "nope"],
     ZeroRequest,
     MalformedBody}

----------------------------------------------------------------------------
(* Responses *)

\* what a completed request leaves behind: the response (status, user, list,
\* text) and, for the properties, the request and what it met: the branch the
\* handler left by, the record it fetched (old), the stored row of that id
\* right before and right after its last statement, whether that statement
\* changed the table, the body of a PATCH of the same user that completed with
\* 200 between its fetch and its update (overlap), and whether the unique
\* fields of a POST were free in the table
Response(op, id, body, branch, status) ==
    [op |-> op, id |-> id, body |-> body, branch |-> branch, status |-> status,
     user |-> ZeroUser, list |-> {}, text |-> "",
     old |-> ZeroUser, before |-> ZeroUser, after |-> ZeroUser,
     overlap |-> ZeroRequest, changed |-> FALSE, free |-> FALSE]

\* a handler goroutine serves one request: it is started for it ("ready" until
\* then), holds it between the two statements of a PATCH or DELETE, and ends
Handler(pc) == [pc |-> pc, id |-> 0, body |-> ZeroRequest, old |-> ZeroUser,
                overlap |-> ZeroRequest]
Done == Handler("done")

\* requests are numbered in the order their handlers start
Ready(h) ==
    /\ hs[h].pc = "ready"
    /\ \A g \in Handlers : g < h => hs[g].pc # "ready"

----------------------------------------------------------------------------
(* GET /users *)

GetUsers(h) ==
    /\ Ready(h)
    /\ hs' = [hs EXCEPT ![h] = Done]
    /\ last' = [Response("LIST", 0, ZeroRequest, "found", StatusOK)
                    EXCEPT !.list = users]
    /\ UNCHANGED <<users, nextId, created, deleted>>

(* GET /users/:id *)

GetUser(h, id) ==
    LET res == DbFirst(users, id) IN
    /\ Ready(h)
    /\ hs' = [hs EXCEPT ![h] = Done]
    /\ last' = IF ~res.found
               THEN Response("GET", id, ZeroRequest, "notfound", StatusNoContent)
               ELSE [Response("GET", id, ZeroRequest, "found", StatusOK)
                        EXCEPT !.user = res.row]
    /\ UNCHANGED <<users, nextId, created, deleted>>

(* POST /users *)

\* the outcome of the handler on `body` over `table`, with bcrypt drawing
\* `salt` and the sequence standing at `id`
PostOutcome(table, id, body, salt) ==
    LET hashed == GenerateFromPassword(body.Password, salt)
        parsed == TimeParse(body.Birthday)
        newData == [ZeroUser EXCEPT !.Username = body.Username,
                                    !.Password = hashed.crypted,
                                    !.FirstName = body.FirstName,
                                    !.LastName = body.LastName,
                                    !.Phone = body.Phone,
                                    !.Email = body.Email,
                                    !.Birthday = parsed.t]
        res == DbCreate(table, newData, id)
        free == UniqueOK(table, [newData EXCEPT !.UserID = id])
    IN  IF ~body.WellFormed
        THEN [stmt |-> FALSE, table |-> table,
              resp |-> [Response("POST", 0, body, "bind", StatusInternalServerError)
                            EXCEPT !.text = "bind error"]]
        ELSE IF ~ValidateUserRequest(body)
        THEN [stmt |-> FALSE, table |-> table,
              resp |-> [Response("POST", 0, body, "validate", StatusUnprocessableEntity)
                            EXCEPT !.text = "validation error"]]
        ELSE IF hashed.err
        THEN [stmt |-> FALSE, table |-> table,
              resp |-> [Response("POST", 0, body, "hash", StatusInternalServerError)
                            EXCEPT !.text = "bcrypt error", !.free = free]]
        ELSE IF parsed.err
        THEN [stmt |-> FALSE, table |-> table,
              resp |-> [Response("POST", 0, body, "parse", StatusInternalServerError)
                            EXCEPT !.text = "parsing time error", !.free = free]]
        ELSE IF res.err
        \* line 112 calls err.Error() on the nil err of time.Parse: the handler
        \* panics and the client gets no response
        THEN [stmt |-> TRUE, table |-> res.table,
              resp |-> Response("POST", 0, body, "create_err", StatusNone)]
        ELSE [stmt |-> TRUE, table |-> res.table,
              resp |-> [Response("POST", res.row.UserID, body, "created", StatusCreated)
                            EXCEPT !.user = res.row, !.after = res.row,
                                   !.changed = TRUE, !.free = TRUE]]

PostUsers(h, body) ==
    /\ Ready(h)
    /\ \E salt \in Salts :
        LET out == PostOutcome(users, nextId, body, salt) IN
        /\ out.stmt => nextId <= MaxId
        /\ users' = out.table
        /\ nextId' = IF out.stmt THEN nextId + 1 ELSE nextId
        /\ last' = out.resp
        /\ created' = IF out.resp.branch = "created"
                      THEN created \cup {out.resp.id} ELSE created
        /\ hs' = [hs EXCEPT ![h] = Done]
        /\ UNCHANGED deleted

(* PATCH /users/:id *)

\* lines 131-153: overwrite the fetched record with the non-empty request
\* fields; the errors of bcrypt and time.Parse are dropped and their zero
\* results assigned
ApplyEdit(old, body, salt) ==
    [UserID    |-> old.UserID,
     Username  |-> IF body.Username # "" THEN body.Username ELSE old.Username,
     Password  |-> IF body.Password # ""
                   THEN GenerateFromPassword(body.Password, salt).crypted
                   ELSE old.Password,
     FirstName |-> IF body.FirstName # "" THEN body.FirstName ELSE old.FirstName,
     LastName  |-> IF body.LastName # "" THEN body.LastName ELSE old.LastName,
     Phone     |-> IF body.Phone # "" THEN body.Phone ELSE old.Phone,
     Email     |-> IF body.Email # "" THEN body.Email ELSE old.Email,
     Birthday  |-> IF body.Birthday # "" THEN TimeParse(body.Birthday).t
                   ELSE old.Birthday,
     IsActive  |-> old.IsActive]

\* lines 117-129: bind the body and fetch the record
PatchFetch(h, id, body) ==
    LET res == DbFirst(users, id) IN
    /\ Ready(h)
    /\ IF ~body.WellFormed
       THEN /\ last' = [Response("PATCH", id, body, "bind", StatusInternalServerError)
                            EXCEPT !.text = "bind error"]
            /\ hs' = [hs EXCEPT ![h] = Done]
       ELSE IF ~res.found
       THEN /\ last' = Response("PATCH", id, body, "notfound", StatusNoContent)
            /\ hs' = [hs EXCEPT ![h] = Done]
       ELSE /\ last' = last
            /\ hs' = [hs EXCEPT ![h] = [pc |-> "patch", id |-> id, body |-> body,
                                        old |-> res.row, overlap |-> ZeroRequest]]
    /\ UNCHANGED <<users, nextId, created, deleted>>

\* lines 131-159: edit the fetched record, write it back, answer
PatchUpdate(h) ==
    /\ hs[h].pc = "patch"
    /\ \E salt \in Salts :
        LET me == hs[h]
            old == ApplyEdit(me.old, me.body, salt)
            before == DbFirst(users, old.UserID).row
            res == DbUpdates(users, old)
            after == DbFirst(res.table, old.UserID).row
            base == [Response("PATCH", me.id, me.body, "updated", StatusOK)
                        EXCEPT !.old = me.old, !.before = before, !.after = after,
                               !.overlap = me.overlap,
                               !.changed = (res.table # users)]
        IN  /\ users' = res.table
            /\ last' = IF res.err
                       \* line 157 hands c.JSON the method value errUpdate.Error,
                       \* which cannot be encoded: echo answers its generic 500
                       THEN [base EXCEPT !.branch = "update_err",
                                         !.status = StatusInternalServerError,
                                         !.text = "Internal Server Error"]
                       ELSE [base EXCEPT !.user = old]
            /\ hs' = [g \in Handlers |->
                        IF g = h THEN Done
                        ELSE IF ~res.err /\ hs[g].pc = "patch" /\ hs[g].id = me.id
                        THEN [hs[g] EXCEPT !.overlap = me.body]
                        ELSE hs[g]]
    /\ UNCHANGED <<nextId, created, deleted>>

(* DELETE /users/:id *)

\* lines 162-170: fetch the record
DeleteFetch(h, id) ==
    LET res == DbFirst(users, id) IN
    /\ Ready(h)
    /\ IF ~res.found
       THEN /\ last' = Response("DELETE", id, ZeroRequest, "notfound", StatusNoContent)
            /\ hs' = [hs EXCEPT ![h] = Done]
       ELSE /\ last' = last
            /\ hs' = [hs EXCEPT ![h] = [pc |-> "delete", id |-> id,
                                        body |-> ZeroRequest, old |-> res.row,
                                        overlap |-> ZeroRequest]]
    /\ UNCHANGED <<users, nextId, created, deleted>>

\* lines 171-175: delete the row. db.Delete returns a *gorm.DB, never nil, so
\* line 173 always runs and calls err.Error() on the nil err of the fetch: the
\* handler panics after the DELETE statement and the client gets no response
DeleteExec(h) ==
    /\ hs[h].pc = "delete"
    /\ LET me == hs[h]
           before == DbFirst(users, me.old.UserID).row
           table == DbDelete(users, me.old)
       IN  /\ users' = table
           /\ last' = [Response("DELETE", me.id, ZeroRequest, "deleted", StatusNone)
                          EXCEPT !.old = me.old, !.before = before,
                                 !.after = DbFirst(table, me.old.UserID).row,
                                 !.changed = (table # users)]
           /\ deleted' = deleted \cup {me.old.UserID}
    /\ hs' = [hs EXCEPT ![h] = Done]
    /\ UNCHANGED <<nextId, created>>

----------------------------------------------------------------------------

\* The table outlives the process: construction (AutoMigrate) keeps the rows
\* earlier runs created. The service starts over an empty table, or over one
\* holding the users earlier POSTs created.
SeedAlice ==
    PostOutcome({}, 1, NewUser("alice", "111", "a@x.io"), "saltA").table
SeedAliceBob ==
    PostOutcome(SeedAlice, 2, NewUser("bob", "222", "b@x.io"), "saltB").table

Init ==
    /\ users \in {{}, SeedAlice, SeedAliceBob}
    /\ nextId = Cardinality(users) + 1
    /\ hs = [h \in Handlers |-> Handler("ready")]
    /\ last = Response("none", 0, ZeroRequest, "none", StatusNone)
    /\ created = {r.UserID : r \in users}
    /\ deleted = {}

Next ==
    \/ \E h \in Handlers : GetUsers(h)
    \/ \E h \in Handlers, id \in Ids : GetUser(h, id)
    \/ \E h \in Handlers, body \in CreateBodies : PostUsers(h, body)
    \/ \E h \in Handlers, id \in Ids, body \in EditBodies : PatchFetch(h, id, body)
    \/ \E h \in Handlers : PatchUpdate(h)
    \/ \E h \in Handlers, id \in Ids : DeleteFetch(h, id)
    \/ \E h \in Handlers : DeleteExec(h)

Spec == Init /\ [][Next]_vars

----------------------------------------------------------------------------
(* Properties *)

\* the PATCH whose response is `last` ran its UPDATE statement
PatchWrote == last.op = "PATCH" /\ last.branch \in {"updated", "update_err"}

\* the fields a request body sets
Touched(body) ==
    {f \in {"Username", "Password", "FirstName", "LastName", "Phone", "Email",
            "Birthday"} : body[f] # ""}

\* `row` carries the value `body` sets for each field it touches
Carries(row, body) ==
    /\ \A f \in Touched(body) \ {"Password", "Birthday"} : row[f] = body[f]
    /\ body.Password # "" =>
          \E salt \in Salts :
              row.Password = GenerateFromPassword(body.Password, salt).crypted
    /\ body.Birthday # "" => row.Birthday = TimeParse(body.Birthday).t

\* the passwords clients submit, and what the hasher can return for them
Plaintexts == {b.Password : b \in CreateBodies \cup EditBodies} \ {""}
HashOutputs ==
    {GenerateFromPassword(p, salt).crypted :
        p \in {q \in Plaintexts : ~GenerateFromPassword(q, "saltA").err},
        salt \in Salts}

\* C1: a DELETE of a stored user answers 200 with that user's last stored
\* values and removes the row, and a GET of that id completed after the DELETE
\* answers 204 with an empty body.
C1_DeleteAnswersWithUser ==
    /\ (last.op = "DELETE" /\ last.branch = "deleted") =>
          /\ last.status = StatusOK
          /\ last.before # ZeroUser => last.user = last.before
          /\ last.after = ZeroUser
    /\ (last.op = "GET" /\ last.id \in deleted) =>
          /\ last.status = StatusNoContent
          /\ last.user = ZeroUser

\* C2: a POST that passes validation, hashing and birthday parsing and whose
\* username, phone or email is already stored answers 500 with the persistence
\* error, never 201, and leaves the table unchanged.
C2_DuplicateCreateAnswers500 ==
    (last.op = "POST" /\ last.branch = "create_err") =>
        /\ last.status = StatusInternalServerError
        /\ last.text # ""
        /\ ~last.changed

\* C3: no two distinct stored users share a username, a phone or an email (or
\* an id), whatever the interleaving of POST, PATCH and DELETE; a create or an
\* update the store rejects for it changes nothing.
C3_UniqueFields ==
    /\ \A a, b \in users :
          a # b => /\ a.UserID # b.UserID
                   /\ a.Username # b.Username
                   /\ a.Phone # b.Phone
                   /\ a.Email # b.Email
    /\ last.branch \in {"create_err", "update_err"} => ~last.changed

\* C3 witness: the store rejected the UPDATE of a PATCH that collided with
\* another stored user
C3_Witness ==
    /\ last.branch = "update_err"
    /\ Cardinality(users) >= 2

\* C4: a PATCH of an existing user that sets only the email and answers 200
\* changes exactly the stored email: every other field of the stored record is
\* as it was before the update, and the response carries the stored record.
C4_EmailOnlyPatch ==
    (/\ PatchWrote /\ last.status = StatusOK
     /\ Touched(last.body) = {"Email"}
     /\ last.before # ZeroUser) =>
        /\ last.after = [last.before EXCEPT !.Email = last.body.Email]
        /\ last.user = last.after

\* C5: the stored password of every user is an output of the hasher and is
\* never a plaintext a client submitted, also after a PATCH whose hashing
\* failed.
C5_PasswordIsHash ==
    \A r \in users :
        /\ r.Password \in HashOutputs
        /\ r.Password \notin Plaintexts

\* C5 witness: a PATCH whose password bcrypt refused has written its record
C5_Witness ==
    /\ PatchWrote /\ last.status = StatusOK
    /\ last.body.Password = TooLong
    /\ last.after # ZeroUser
    /\ last.after \in users

\* C6: a POST with valid and unused username, password, phone and email and no
\* birthday answers 201 and stores a user whose birthday is the zero date.
C6_BirthdayOptional ==
    (/\ last.op = "POST" /\ last.body.WellFormed
     /\ ValidateUserRequest(last.body)
     /\ last.body.Birthday = ""
     /\ last.body.Password # TooLong
     /\ last.free) =>
        /\ last.status = StatusCreated
        /\ last.user.Birthday = ZeroTime
        /\ last.after = last.user /\ last.after # ZeroUser

\* C7: every stored user's email matches email syntax: a PATCH with an invalid
\* email never changes the stored email.
C7_StoredEmailIsValid ==
    \A r \in users : IsEmail(r.Email)

\* C8: a user is in the table from the POST that created it until a DELETE
\* removes it; a PATCH never changes a stored user's id, and no row exists
\* under a deleted id, also after a PATCH that fetched the user before a
\* concurrent DELETE removed it.
C8_IdentityAndLifetime ==
    /\ \A r \in users : r.UserID \in created \ deleted
    /\ \A id \in created \ deleted : \E r \in users : r.UserID = id
    /\ (PatchWrote /\ last.before # ZeroUser) =>
          last.after.UserID = last.before.UserID
    /\ (PatchWrote /\ last.before = ZeroUser) => last.after = ZeroUser

\* C8 witness: a PATCH answered 200 for a user a concurrent DELETE removed
\* between its fetch and its update
C8_Witness ==
    /\ PatchWrote /\ last.status = StatusOK
    /\ last.id \in deleted
    /\ last.old # ZeroUser /\ last.before = ZeroUser

\* C9: a PATCH whose birthday does not parse, or whose password cannot be
\* hashed, answers 200 and leaves that field unchanged: in the stored record
\* and in the returned record it is the value fetched before the update.
C9_SwallowedErrorKeepsField ==
    /\ (PatchWrote /\ last.body.Birthday # ""
            /\ TimeParse(last.body.Birthday).err) =>
          /\ last.status = StatusOK
          /\ last.user.Birthday = last.old.Birthday
          /\ last.after # ZeroUser => last.after.Birthday = last.old.Birthday
    /\ (PatchWrote /\ last.body.Password = TooLong) =>
          /\ last.status = StatusOK
          /\ last.user.Password = last.old.Password
          /\ last.after # ZeroUser => last.after.Password = last.old.Password

\* C10: when two PATCHes of the same existing user set disjoint fields and
\* both answer 200, the stored record carries both new values, however their
\* fetches and updates interleave.
C10_NoLostUpdate ==
    (/\ PatchWrote /\ last.status = StatusOK
     /\ last.after # ZeroUser
     /\ Touched(last.body) # {} /\ Touched(last.overlap) # {}
     /\ Touched(last.body) \cap Touched(last.overlap) = {}
     /\ last.body.Password # TooLong /\ last.overlap.Password # TooLong
     /\ ~(last.body.Birthday # "" /\ TimeParse(last.body.Birthday).err)
     /\ ~(last.overlap.Birthday # "" /\ TimeParse(last.overlap.Birthday).err)) =>
        /\ Carries(last.after, last.body)
        /\ Carries(last.after, last.overlap)

=============================================================================
